---- MODULE Spec2Model ----
(***************************************************************************)
(* Model of packages/text-extractor/src/resume_extractor.py:               *)
(* ResumeExtractor.extract() with its three strategies (PDF three-tier     *)
(* fallback, DOCX, TEXT) and the shared clean_text normalisation.          *)
(*                                                                         *)
(* Strings are sequences of character codes.  The libraries the extractor  *)
(* calls (pdfminer, pypdf, PyMuPDF, docx2txt, the file system) are black   *)
(* boxes: every call either raises or returns a value drawn from a bounded *)
(* set.                                                                    *)
(***************************************************************************)
EXTENDS Integers, Sequences, FiniteSets, TLC

VARIABLES
    format,      \* self.format
    threshold,   \* self.min_text_threshold
    isPath,      \* TRUE: self.file is a str path; FALSE: a seekable stream
    pc,          \* position of the call inside extract()
    text,        \* local `text` of the running strategy
    images,      \* local `images` of _extract_pdf
    result,      \* the ExtractionResult returned (NoResult before return)
    exc,         \* class of the exception extract() raised ("" when none)
    trace,       \* library and file operations performed, in order
    open,        \* document/file handles currently open
    raw,         \* the raw string the library returned for the current text
    tier1Text,   \* value of `text` when the tier-1 block was left
    extracted,   \* value of `text` when the tier-2 block was left
    t1raised,    \* the tier-1 extractor raised
    t2raised,    \* the tier-2 reader raised
    pageImgs,    \* per-page embedded-image counts of the rasterizer document
    cleanIn,     \* clean_text harness: the input string
    cleanOnce,   \* clean_text harness: clean_text(input)
    cleanTwice,  \* clean_text harness: clean_text(clean_text(input))
    cleanPc      \* clean_text harness: position

vars == << format, threshold, isPath, pc, text, images, result, exc, trace,
           open, raw, tier1Text, extracted, t1raised, t2raised, pageImgs,
           cleanIn, cleanOnce, cleanTwice, cleanPc >>

extractVars == << format, threshold, isPath, pc, text, images, result, exc,
                  trace, open, raw, tier1Text, extracted, t1raised, t2raised,
                  pageImgs >>

cleanVars == << cleanIn, cleanOnce, cleanTwice, cleanPc >>

----------------------------------------------------------------------------
(* Bounds *)

MaxLen == 3          \* longest raw text of tier 1, DOCX and TEXT
MaxTextPages == 2    \* most pages the tier-2 reader yields
MaxPages == 2        \* most pages of the rasterizer document
MaxImgs == 2         \* most embedded images on one page
MaxThreshold == 2    \* largest min_text_threshold
MaxCleanLen == 4     \* longest input of the clean_text harness

----------------------------------------------------------------------------
(* Characters *)

NUL == 0
TAB == 9
LF == 10
CR == 13
SP == 32
Letter == 97
BadByte == 128

\* characters matched by \s and removed by str.strip()
Whitespace == {TAB, LF, CR, SP}
\* characters matched by [\r\n]
LineBreaks == {CR, LF}

Alphabet == {NUL, TAB, LF, CR, SP, Letter}
TextAlphabet == {NUL, LF, SP, Letter}

SeqsUpTo(S, n) == UNION {[1..k -> S] : k \in 0..n}

\* Python's None for an Optional[str] / Optional[List]: no character and no
\* image id is negative
None == << -1 >>

----------------------------------------------------------------------------
(* clean_text *)

RECURSIVE DropWhile(_, _)
DropWhile(s, S) ==
    IF s # <<>> /\ Head(s) \in S THEN DropWhile(Tail(s), S) ELSE s

\* re.sub(r'[\r\n]+|\s+', ' ', text): leftmost match, first alternative
\* first, each alternative greedy
RECURSIVE ReSub(_)
ReSub(s) ==
    IF s = <<>> THEN <<>>
    ELSE IF Head(s) \in LineBreaks
         THEN <<SP>> \o ReSub(DropWhile(s, LineBreaks))
    ELSE IF Head(s) \in Whitespace
         THEN <<SP>> \o ReSub(DropWhile(s, Whitespace))
    ELSE <<Head(s)>> \o ReSub(Tail(s))

\* cleaned.replace("\u0000", '')
RemoveNull(s) == SelectSeq(s, LAMBDA c : c # NUL)

Reverse(s) == [i \in 1..Len(s) |-> s[Len(s) + 1 - i]]

\* str.strip()
Strip(s) == Reverse(DropWhile(Reverse(DropWhile(s, Whitespace)), Whitespace))

clean_text(t) ==
    IF t = <<>> THEN <<>> ELSE Strip(RemoveNull(ReSub(t)))

----------------------------------------------------------------------------
(* Formats, results, exceptions *)

PDF == "PDF"
DOCX == "DOCX"
TEXT == "TEXT"

\* the three supported values, case variants of them and a foreign value
Formats == {PDF, DOCX, TEXT, "pdf", "Docx", "text", "unsupported"}

\* min_text_threshold: "Minimum characters before triggering OCR fallback",
\* a positive number of characters (default 500)
Thresholds == 1..MaxThreshold

ExtractionResult(t, i, f) == [text |-> t, images |-> i, failed |-> f]

\* value of `result` while extract() has not returned
NoResult == ExtractionResult(None, None, FALSE)

\* Python truthiness of an Optional[str] or Optional[List]
Truthy(x) == x # None /\ x # <<>>

\* hasattr(self.file, 'seek') and self.file.seek(0)
SeekIfStream == IF isPath THEN <<>> ELSE <<"seek">>

----------------------------------------------------------------------------
(* UTF-8 decoding of the TEXT strategy: ASCII bytes are one character each, *)
(* the lead byte 0xC3 followed by the continuation byte 0x80 is U+00C0, a   *)
(* continuation byte or a lead byte standing alone is a decode error        *)

Lead == 195
Grave == 192

RECURSIVE Utf8Valid(_)
Utf8Valid(b) ==
    IF b = <<>> THEN TRUE
    ELSE IF Head(b) < BadByte THEN Utf8Valid(Tail(b))
    ELSE IF Head(b) = Lead /\ Len(b) >= 2 /\ b[2] = BadByte
         THEN Utf8Valid(Tail(Tail(b)))
    ELSE FALSE

RECURSIVE Utf8Decode(_)
Utf8Decode(b) ==
    IF b = <<>> THEN <<>>
    ELSE IF Head(b) < BadByte THEN <<Head(b)>> \o Utf8Decode(Tail(b))
    ELSE <<Grave>> \o Utf8Decode(Tail(Tail(b)))

ByteAlphabet == {NUL, LF, SP, Letter, Lead, BadByte}

FileBytes == SeqsUpTo(ByteAlphabet, MaxLen)

----------------------------------------------------------------------------
(* Initial state: a freshly constructed ResumeExtractor, extract() called *)

Init ==
    /\ format \in Formats
    /\ threshold \in Thresholds
    /\ isPath \in BOOLEAN
    /\ pc = "start"
    /\ text = None
    /\ images = None
    /\ result = NoResult
    /\ exc = ""
    /\ trace = <<>>
    /\ open = {}
    /\ raw = None
    /\ tier1Text = None
    /\ extracted = None
    /\ t1raised = FALSE
    /\ t2raised = FALSE
    /\ pageImgs = None
    /\ cleanIn = <<>>
    /\ cleanOnce = <<>>
    /\ cleanTwice = <<>>
    /\ cleanPc = "idle"

----------------------------------------------------------------------------
(* extract(): dispatch on the format *)

\* str.upper() on the format values of the model
Upper(fmt) ==
    CASE fmt = "pdf" -> PDF
      [] fmt = "Docx" -> DOCX
      [] fmt = "text" -> TEXT
      [] OTHER -> fmt

\* variant: the format compared without regard to case
FormatIsIgnoringCase(fmt, known) == Upper(fmt) = known

FormatIs(fmt, known) == fmt = known

Dispatch ==
    /\ pc = "start"
    /\ pc' = IF FormatIs(format, PDF) THEN "tier1"
             ELSE IF FormatIs(format, DOCX) THEN "docx"
             ELSE IF FormatIs(format, TEXT) THEN "text"
             ELSE "returned"
    /\ result' = IF FormatIs(format, PDF) \/ FormatIs(format, DOCX)
                     \/ FormatIs(format, TEXT)
                 THEN result
                 ELSE ExtractionResult(None, None, TRUE)
    /\ UNCHANGED << format, threshold, isPath, text, images, exc, trace, open,
                    raw, tier1Text, extracted, t1raised, t2raised, pageImgs >>
    /\ UNCHANGED cleanVars

----------------------------------------------------------------------------
(* _extract_pdf, tier 1: pdfminer *)

Tier1Ok ==
    /\ pc = "tier1"
    /\ \E out \in SeqsUpTo(TextAlphabet, MaxLen) :
          /\ raw' = out
          /\ text' = clean_text(out)
          /\ tier1Text' = clean_text(out)
    /\ trace' = Append(trace, "tier1")
    /\ pc' = "tier2"
    /\ UNCHANGED << format, threshold, isPath, images, result, exc, open,
                    extracted, t1raised, t2raised, pageImgs >>
    /\ UNCHANGED cleanVars

\* PDFSyntaxError or any other Exception: printed, not propagated
Tier1Raise ==
    /\ pc = "tier1"
    /\ t1raised' = TRUE
    /\ trace' = Append(trace, "tier1")
    /\ pc' = "tier2"
    /\ UNCHANGED << format, threshold, isPath, text, images, result, exc, open,
                    raw, tier1Text, extracted, t2raised, pageImgs >>
    /\ UNCHANGED cleanVars

----------------------------------------------------------------------------
(* _extract_pdf, tier 2: pypdf *)

\* variant: pypdf run whatever tier 1 returned
Tier2NeededAlways(t) == TRUE

\* not text or text.strip() == ''
Tier2Needed(t) == ~Truthy(t) \/ Strip(t) = <<>>

\* text of one page as pypdf's extract_text() returns it
PageTexts == SeqsUpTo(TextAlphabet, 1)

\* " ".join(page_texts)
RECURSIVE Join(_)
Join(pages) ==
    IF pages = <<>> THEN <<>>
    ELSE IF Len(pages) = 1 THEN pages[1]
    ELSE pages[1] \o <<SP>> \o Join(Tail(pages))

Tier2Skip ==
    /\ pc = "tier2"
    /\ ~Tier2Needed(text)
    /\ extracted' = text
    /\ pc' = "tier3"
    /\ UNCHANGED << format, threshold, isPath, text, images, result, exc,
                    trace, open, raw, tier1Text, t1raised, t2raised, pageImgs >>
    /\ UNCHANGED cleanVars

\* The reader is never closed by the code; whether the runtime has already
\* finalised it when the block is left is the runtime's choice.
Tier2Ok ==
    /\ pc = "tier2"
    /\ Tier2Needed(text)
    /\ \E pages \in SeqsUpTo(PageTexts, MaxTextPages) :
          /\ raw' = Join(pages)
          /\ text' = Join(pages)
          /\ extracted' = Join(pages)
    /\ \E finalised \in BOOLEAN :
          open' = IF finalised THEN open ELSE open \cup {"pdf_reader"}
    /\ trace' = trace \o SeekIfStream \o <<"tier2">>
    /\ pc' = "tier3"
    /\ UNCHANGED << format, threshold, isPath, images, result, exc, tier1Text,
                    t1raised, t2raised, pageImgs >>
    /\ UNCHANGED cleanVars

\* variant: a tier-2 exception absorbed like a tier-1 exception
Tier2RaiseAbsorbed ==
    /\ pc = "tier2"
    /\ Tier2Needed(text)
    /\ \E opened \in BOOLEAN :
          open' = IF opened THEN open \cup {"pdf_reader"} ELSE open
    /\ t2raised' = TRUE
    /\ extracted' = text
    /\ trace' = trace \o SeekIfStream \o <<"tier2">>
    /\ pc' = "tier3"
    /\ UNCHANGED << format, threshold, isPath, text, images, result, exc, raw,
                    tier1Text, t1raised, pageImgs >>
    /\ UNCHANGED cleanVars

\* PdfReadError or any other Exception, from PdfReader() (no reader exists)
\* or from a page's extract_text() (the reader exists)
Tier2Raise ==
    /\ pc = "tier2"
    /\ Tier2Needed(text)
    /\ \E opened \in BOOLEAN :
          open' = IF opened THEN open \cup {"pdf_reader"} ELSE open
    /\ t2raised' = TRUE
    /\ exc' = "PDFExtractionError"
    /\ trace' = trace \o SeekIfStream \o <<"tier2">>
    /\ pc' = "raised"
    /\ UNCHANGED << format, threshold, isPath, text, images, result, raw,
                    tier1Text, extracted, t1raised, pageImgs >>
    /\ UNCHANGED cleanVars

----------------------------------------------------------------------------
(* _extract_pdf, tier 3: _pdf_to_images with PyMuPDF *)

\* variant: the threshold compared with <= instead of <
Tier3NeededInclusive(t, thr) == ~Truthy(t) \/ Len(Strip(t)) <= thr

\* not text or len(text.strip()) < self.min_text_threshold
Tier3Needed(t, thr) == ~Truthy(t) \/ Len(Strip(t)) < thr

\* identity of one base64 string: k = 0 is the rendering of page p
\* (_page_to_image), k >= 1 its k-th embedded image
ImageId(p, k) == p * (MaxImgs + 1) + k

\* variant: a page without embedded images is not rendered
PageImagesNoRender(p, n) == [k \in 1..n |-> ImageId(p, k)]

\* what one page with n embedded images appends to image_data_list
PageImages(p, n) ==
    IF n = 0 THEN << ImageId(p, 0) >>
    ELSE [k \in 1..n |-> ImageId(p, k)]

\* the loop over range(len(pdf_doc)), from page p on
RECURSIVE ImagesFrom(_, _)
ImagesFrom(counts, p) ==
    IF p > Len(counts) THEN <<>>
    ELSE PageImages(p, counts[p]) \o ImagesFrom(counts, p + 1)

ImageDataList(counts) == ImagesFrom(counts, 1)

\* per-page embedded-image counts of the documents PyMuPDF may open
PageCounts == SeqsUpTo(0..MaxImgs, MaxPages)

Tier3Skip ==
    /\ pc = "tier3"
    /\ ~Tier3Needed(text, threshold)
    /\ pc' = "select"
    /\ UNCHANGED << format, threshold, isPath, text, images, result, exc,
                    trace, open, raw, tier1Text, extracted, t1raised, t2raised,
                    pageImgs >>
    /\ UNCHANGED cleanVars

\* pdf_doc is never closed by the code; whether the runtime has already
\* finalised it when _pdf_to_images has returned is the runtime's choice.
Tier3Ok ==
    /\ pc = "tier3"
    /\ Tier3Needed(text, threshold)
    /\ \E counts \in PageCounts :
          /\ pageImgs' = counts
          /\ images' = ImageDataList(counts)
    /\ \E finalised \in BOOLEAN :
          open' = IF finalised THEN open ELSE open \cup {"pdf_doc"}
    /\ text' = None
    /\ trace' = trace \o SeekIfStream \o <<"tier3">>
    /\ pc' = "select"
    /\ UNCHANGED << format, threshold, isPath, result, exc, raw, tier1Text,
                    extracted, t1raised, t2raised >>
    /\ UNCHANGED cleanVars

\* any Exception inside _pdf_to_images: from fitz.open (no document exists)
\* or from a page (the document exists and the traceback keeps it alive)
Tier3Raise ==
    /\ pc = "tier3"
    /\ Tier3Needed(text, threshold)
    /\ \E opened \in BOOLEAN :
          open' = IF opened THEN open \cup {"pdf_doc"} ELSE open
    /\ exc' = "ImageConversionError"
    /\ trace' = trace \o SeekIfStream \o <<"tier3">>
    /\ pc' = "raised"
    /\ UNCHANGED << format, threshold, isPath, text, images, result, raw,
                    tier1Text, extracted, t1raised, t2raised, pageImgs >>
    /\ UNCHANGED cleanVars

----------------------------------------------------------------------------
(* _extract_pdf: result selection *)

\* variant: `if images is not None` instead of `if images`
SelectResultNotNone(t, i) ==
    IF i # None THEN ExtractionResult(None, i, FALSE)
    ELSE IF Truthy(t) /\ Strip(t) # <<>> THEN ExtractionResult(t, None, FALSE)
    ELSE ExtractionResult(None, None, TRUE)

SelectResult(t, i) ==
    IF Truthy(i) THEN ExtractionResult(None, i, FALSE)
    ELSE IF Truthy(t) /\ Strip(t) # <<>> THEN ExtractionResult(t, None, FALSE)
    ELSE ExtractionResult(None, None, TRUE)

Select ==
    /\ pc = "select"
    /\ result' = SelectResult(text, images)
    /\ pc' = "returned"
    /\ UNCHANGED << format, threshold, isPath, text, images, exc, trace, open,
                    raw, tier1Text, extracted, t1raised, t2raised, pageImgs >>
    /\ UNCHANGED cleanVars

----------------------------------------------------------------------------
(* _extract_docx *)

DocxResult(t) ==
    IF Truthy(t) /\ Strip(t) # <<>> THEN ExtractionResult(t, None, FALSE)
    ELSE ExtractionResult(None, None, TRUE)

DocxOk ==
    /\ pc = "docx"
    /\ \E out \in SeqsUpTo(TextAlphabet, MaxLen) :
          /\ raw' = out
          /\ text' = clean_text(out)
          /\ result' = DocxResult(clean_text(out))
    /\ trace' = Append(trace, "docx")
    /\ pc' = "returned"
    /\ UNCHANGED << format, threshold, isPath, images, exc, open, tier1Text,
                    extracted, t1raised, t2raised, pageImgs >>
    /\ UNCHANGED cleanVars

\* zipfile.BadZipFile or any other Exception
DocxRaise ==
    /\ pc = "docx"
    /\ exc' = "DOCXExtractionError"
    /\ trace' = Append(trace, "docx")
    /\ pc' = "raised"
    /\ UNCHANGED << format, threshold, isPath, text, images, result, open, raw,
                    tier1Text, extracted, t1raised, t2raised, pageImgs >>
    /\ UNCHANGED cleanVars

----------------------------------------------------------------------------
(* _extract_text *)

\* variant: the emptiness test inverted
TextResultInverted(t) ==
    IF Truthy(t) /\ Strip(t) # <<>> THEN ExtractionResult(None, None, TRUE)
    ELSE ExtractionResult(t, None, FALSE)

TextResult(t) ==
    IF Truthy(t) /\ Strip(t) # <<>> THEN ExtractionResult(t, None, FALSE)
    ELSE ExtractionResult(None, None, TRUE)

\* open(self.file, 'r', encoding='utf-8') succeeds: the with block is entered
TextOpen ==
    /\ pc = "text"
    /\ isPath
    /\ open' = open \cup {"f"}
    /\ trace' = Append(trace, "open")
    /\ pc' = "text_read"
    /\ UNCHANGED << format, threshold, isPath, text, images, result, exc, raw,
                    tier1Text, extracted, t1raised, t2raised, pageImgs >>
    /\ UNCHANGED cleanVars

\* open() raises FileNotFoundError
TextNotFound ==
    /\ pc = "text"
    /\ isPath
    /\ exc' = "TextExtractionError"
    /\ trace' = Append(trace, "open")
    /\ pc' = "raised"
    /\ UNCHANGED << format, threshold, isPath, text, images, result, open, raw,
                    tier1Text, extracted, t1raised, t2raised, pageImgs >>
    /\ UNCHANGED cleanVars

\* f.read() inside the with block; leaving the block closes f on both paths
TextReadPath ==
    /\ pc = "text_read"
    /\ \E b \in FileBytes :
          IF Utf8Valid(b)
          THEN /\ raw' = Utf8Decode(b)
               /\ text' = clean_text(Utf8Decode(b))
               /\ result' = TextResult(clean_text(Utf8Decode(b)))
               /\ pc' = "returned"
               /\ exc' = exc
          ELSE /\ exc' = "TextExtractionError"
               /\ pc' = "raised"
               /\ UNCHANGED << raw, text, result >>
    /\ open' = open \ {"f"}
    /\ trace' = Append(trace, "read")
    /\ UNCHANGED << format, threshold, isPath, images, tier1Text, extracted,
                    t1raised, t2raised, pageImgs >>
    /\ UNCHANGED cleanVars

\* self.file.seek(0); self.file.read().decode('utf-8')
TextReadStream ==
    /\ pc = "text"
    /\ ~isPath
    /\ \E b \in FileBytes :
          IF Utf8Valid(b)
          THEN /\ raw' = Utf8Decode(b)
               /\ text' = clean_text(Utf8Decode(b))
               /\ result' = TextResult(clean_text(Utf8Decode(b)))
               /\ pc' = "returned"
               /\ exc' = exc
          ELSE /\ exc' = "TextExtractionError"
               /\ pc' = "raised"
               /\ UNCHANGED << raw, text, result >>
    /\ trace' = trace \o SeekIfStream \o <<"read">>
    /\ UNCHANGED << format, threshold, isPath, images, open, tier1Text,
                    extracted, t1raised, t2raised, pageImgs >>
    /\ UNCHANGED cleanVars

----------------------------------------------------------------------------
(* One call of extract() *)

Next ==
    \/ Dispatch
    \/ Tier1Ok
    \/ Tier1Raise
    \/ Tier2Skip
    \/ Tier2Ok
    \/ Tier2Raise
    \/ Tier3Skip
    \/ Tier3Ok
    \/ Tier3Raise
    \/ Select
    \/ DocxOk
    \/ DocxRaise
    \/ TextOpen
    \/ TextNotFound
    \/ TextReadPath
    \/ TextReadStream

Spec == Init /\ [][Next]_vars

----------------------------------------------------------------------------
(* clean_text applied once and twice to every string of the alphabet *)

InitClean ==
    /\ format = TEXT
    /\ threshold = 1
    /\ isPath = FALSE
    /\ pc = "idle"
    /\ text = None
    /\ images = None
    /\ result = NoResult
    /\ exc = ""
    /\ trace = <<>>
    /\ open = {}
    /\ raw = None
    /\ tier1Text = None
    /\ extracted = None
    /\ t1raised = FALSE
    /\ t2raised = FALSE
    /\ pageImgs = None
    /\ cleanIn \in SeqsUpTo(Alphabet, MaxCleanLen)
    /\ cleanOnce = <<>>
    /\ cleanTwice = <<>>
    /\ cleanPc = "in"

CleanFirst ==
    /\ cleanPc = "in"
    /\ cleanOnce' = clean_text(cleanIn)
    /\ cleanPc' = "once"
    /\ UNCHANGED << cleanIn, cleanTwice >>
    /\ UNCHANGED extractVars

CleanSecond ==
    /\ cleanPc = "once"
    /\ cleanTwice' = clean_text(cleanOnce)
    /\ cleanPc' = "twice"
    /\ UNCHANGED << cleanIn, cleanOnce >>
    /\ UNCHANGED extractVars

NextClean == CleanFirst \/ CleanSecond

SpecClean == InitClean /\ [][NextClean]_vars

----------------------------------------------------------------------------
(* Vocabulary of the properties *)

InTrace(e) == \E i \in 1..Len(trace) : trace[i] = e

\* needle occurs in hay as a contiguous substring
Contains(hay, needle) ==
    \E i \in 0..(Len(hay) - Len(needle)) :
        \A j \in 1..Len(needle) : hay[i + j] = needle[j]

IsText(r) ==
    /\ r.text # None
    /\ Strip(r.text) # <<>>
    /\ r.images = None
    /\ r.failed = FALSE

IsImages(r) ==
    /\ r.images # None
    /\ r.images # <<>>
    /\ r.text = None
    /\ r.failed = FALSE

IsFailed(r) ==
    /\ r.failed = TRUE
    /\ r.text = None
    /\ r.images = None

\* the tiers attempted, in the order of their attempts
TiersRun == SelectSeq(trace, LAMBDA e : e \in {"tier1", "tier2", "tier3"})

\* a PDF call that returned without any tier raising, the text left by
\* tiers 1-2 being shorter (trimmed) than the threshold
ShortPdfReturned ==
    /\ format = PDF
    /\ pc = "returned"
    /\ ~t1raised
    /\ extracted # None
    /\ Len(Strip(extracted)) < threshold

----------------------------------------------------------------------------
(* C1 *)

\* C1 (as claimed): a PDF call in which no tier raises and whose tier 1-2
\* text is shorter than the threshold returns non-empty images, text None
\* and failed False, for every page count and per-page image count.
C1_ImagesForEveryPageCount ==
    ShortPdfReturned => IsImages(result)

\* C1 (amended): the same, for every document of at least one page.
C1_ImagesWhenDocumentHasPages ==
    (ShortPdfReturned /\ pageImgs # None /\ Len(pageImgs) >= 1)
        => IsImages(result)

C1_Witness ==
    /\ ShortPdfReturned
    /\ pageImgs # None
    /\ Len(pageImgs) = 2
    /\ pageImgs[1] = 0
    /\ pageImgs[2] = 2
    /\ IsImages(result)
    /\ Len(result.images) = 3

----------------------------------------------------------------------------
(* C2 *)

\* C2: a PDF call whose extracted text has trimmed length >= the threshold
\* (equality included) never invokes the image tier and returns the Text
\* variant: that non-empty text, images None, failed False.
C2_TextAtOrAboveThreshold ==
    (format = PDF /\ extracted # None /\ Len(Strip(extracted)) >= threshold)
        => /\ ~InTrace("tier3")
           /\ exc = ""
           /\ pc \in {"tier3", "select", "returned"}
           /\ pc = "returned" =>
                 /\ extracted # <<>>
                 /\ result = ExtractionResult(extracted, None, FALSE)

C2_Witness ==
    /\ format = PDF
    /\ pc = "returned"
    /\ extracted # None
    /\ Len(Strip(extracted)) = threshold
    /\ result.text = extracted
    /\ result.images = None

----------------------------------------------------------------------------
(* C3 *)

\* C3: every result extract() returns is in exactly one of the states Text
\* (non-blank text only), Images (non-empty list only), Failed (flag only).
C3_ExactlyOneVariant ==
    pc = "returned" =>
        Cardinality({v \in {"text", "images", "failed"} :
                        \/ v = "text" /\ IsText(result)
                        \/ v = "images" /\ IsImages(result)
                        \/ v = "failed" /\ IsFailed(result)}) = 1

C3_Witness ==
    /\ pc = "returned"
    /\ format = PDF
    /\ InTrace("tier3")
    /\ IsFailed(result)

----------------------------------------------------------------------------
(* C4 *)

\* C4: for a format that is not exactly PDF, DOCX or TEXT, extract() returns
\* failed True, raises nothing, runs no strategy and neither reads nor
\* repositions the file.
C4_UnsupportedFormatFails ==
    format \notin {PDF, DOCX, TEXT}
        => /\ pc \in {"start", "returned"}
           /\ exc = ""
           /\ trace = <<>>
           /\ open = {}
           /\ pc = "returned" => IsFailed(result)

C4_Witness ==
    /\ format = "pdf"
    /\ pc = "returned"
    /\ IsFailed(result)
    /\ trace = <<>>

----------------------------------------------------------------------------
(* C5 *)

\* C5: an exception of tier 1 is absorbed and tier 2 is attempted next; when
\* tier 2 raises, extract() raises PDFExtractionError, returns no result and
\* does not attempt tier 3.
C5_Tier1AbsorbedTier2Propagated ==
    /\ (t1raised /\ pc = "tier2") => exc = ""
    /\ (t1raised /\ pc # "tier2")
          => Len(TiersRun) >= 2 /\ TiersRun[2] = "tier2"
    /\ t2raised =>
          /\ pc = "raised"
          /\ exc = "PDFExtractionError"
          /\ result = NoResult
          /\ ~InTrace("tier3")

C5_Witness ==
    /\ format = PDF
    /\ t1raised
    /\ t2raised
    /\ pc = "raised"
    /\ exc = "PDFExtractionError"

----------------------------------------------------------------------------
(* C6 *)

\* C6: clean_text is idempotent: clean_text(clean_text(s)) = clean_text(s)
\* for every string s.
C6_CleanTextIdempotent ==
    cleanPc = "twice" => cleanTwice = cleanOnce

----------------------------------------------------------------------------
(* C7 *)

\* C7: every extracted text, whichever source produced it, is the clean_text
\* of what the source returned, both when its length is compared with the
\* threshold and when it is returned in a Text result.
C7_NormalizedBeforeUse ==
    /\ (format = PDF /\ extracted # None) => extracted = clean_text(raw)
    /\ (pc = "returned" /\ result.text # None)
          => result.text = clean_text(raw)

----------------------------------------------------------------------------
(* C8 *)

\* C8 (as claimed): for every TEXT or DOCX input with non-empty decodable
\* content, extract() returns failed False and a text that contains the
\* original content.
C8_TextContainsContent ==
    (format \in {TEXT, DOCX} /\ raw # None /\ raw # <<>>)
        => /\ pc = "returned"
           /\ result.failed = FALSE
           /\ result.text # None
           /\ Contains(result.text, raw)

\* C8 (amended): the same, for content that is already normalised, that is
\* content clean_text leaves unchanged.
C8_TextContainsNormalizedContent ==
    (format \in {TEXT, DOCX} /\ raw # None /\ raw # <<>>
        /\ clean_text(raw) = raw)
        => /\ pc = "returned"
           /\ result.failed = FALSE
           /\ result.text # None
           /\ Contains(result.text, raw)

C8_Witness ==
    /\ format = TEXT
    /\ pc = "returned"
    /\ raw = << Letter, SP, Letter >>
    /\ result.failed = FALSE
    /\ result.text = raw

----------------------------------------------------------------------------
(* C9 *)

\* C9: when extract() has returned or raised, no handle it opened is open.
C9_NoHandleLeftOpen ==
    pc \in {"returned", "raised"} => open = {}

----------------------------------------------------------------------------
(* C10 *)

\* C10: the tiers run in the order 1, 2, 3, each at most once; tier 1 first;
\* tier 2 only if tier 1 raised or left empty/blank text; tier 3 only after
\* tiers 1-2 ended without a propagated error and left text that is empty or
\* shorter (trimmed) than the threshold.
C10_TierOrder ==
    /\ TiersRun \in { <<>>, <<"tier1">>, <<"tier1", "tier2">>,
                      <<"tier1", "tier3">>, <<"tier1", "tier2", "tier3">> }
    /\ (format = PDF /\ pc \notin {"start", "tier1"}) => InTrace("tier1")
    /\ InTrace("tier2") =>
          \/ t1raised
          \/ tier1Text # None /\ Strip(tier1Text) = <<>>
    /\ InTrace("tier3") =>
          /\ ~t2raised
          /\ extracted # None
          /\ extracted = <<>> \/ Len(Strip(extracted)) < threshold

C10_Witness ==
    /\ pc = "returned"
    /\ TiersRun = <<"tier1", "tier2", "tier3">>
    /\ ~t1raised
    /\ IsImages(result)

====
